---- MODULE Spec2Model ----
(***************************************************************************)
(* A model of the DocuMind retrieval-augmented-answer pipeline:            *)
(*   app/services/rag_service.py   RAGService (ask_question, the graph     *)
(*                                 nodes, fusion, scoring, ingestion)      *)
(*   app/services/advanced_rag.py  HybridRetriever, AdvancedRAGPipeline    *)
(*   app/api/v1/endpoints/rag.py   the /ask endpoint                       *)
(*                                                                         *)
(* Text is a sequence of one-character strings.  Confidence values are     *)
(* held in thousandths (0.3 is 300), fused retrieval scores as multiples   *)
(* of 1/RRFDenom, relevance scores as fractions <<num, den>>.              *)
(***************************************************************************)
EXTENDS Integers, Sequences, FiniteSets, TLC

(***************************************************************************)
(* Bounds of the model.                                                    *)
(***************************************************************************)
\* concurrent ask requests
NumRuns == 2
\* longest generated answer drawn letter by letter in the scoring specification
MaxAnswerLen == 3
\* most context chunks handed to the scorer in the scoring specification
MaxChunks == 4
\* longest result list handed to the fusion in the fusion specification
MaxListLen == 3
\* largest k handed to the fusion in the fusion specification
MaxK == 3

(***************************************************************************)
(* Program constants.                                                      *)
(***************************************************************************)
RRFK == 60
FusionTopK == 10
RerankTopN == 5
MaxCitationWords == 10
CitationConfidence == 800
ConfidenceFloor == 300
CitationWeight == 200
CitationCap == 600
LengthCap == 200
BaseConfidence == 200
ChunkSize == 1000
ChunkOverlap == 200
PositionStride == 1000

(***************************************************************************)
(* Python's str and list operations used by the code.                      *)
(***************************************************************************)
Min(a, b) == IF a <= b THEN a ELSE b

\* s[:n]
Take(s, n) == SubSeq(s, 1, Min(n, Len(s)))

UpperCase ==
    <<"A", "B", "C", "D", "E", "F", "G", "H", "I", "J", "K", "L", "M",
      "N", "O", "P", "Q", "R", "S", "T", "U", "V", "W", "X", "Y", "Z">>

LowerCase ==
    <<"a", "b", "c", "d", "e", "f", "g", "h", "i", "j", "k", "l", "m",
      "n", "o", "p", "q", "r", "s", "t", "u", "v", "w", "x", "y", "z">>

LowerChar(c) ==
    IF \E i \in 1..26 : UpperCase[i] = c
    THEN LowerCase[CHOOSE i \in 1..26 : UpperCase[i] = c]
    ELSE c

\* str.lower()
Lower(s) == [i \in 1..Len(s) |-> LowerChar(s[i])]

IsSpace(c) == c \in {" ", "\n", "\t"}

\* str.split(): the maximal runs of non-whitespace, in order
RECURSIVE SplitFrom(_, _, _, _)
SplitFrom(s, i, word, words) ==
    IF i > Len(s)
    THEN IF word = <<>> THEN words ELSE Append(words, word)
    ELSE IF IsSpace(s[i])
         THEN SplitFrom(s, i + 1, <<>>,
                        IF word = <<>> THEN words ELSE Append(words, word))
         ELSE SplitFrom(s, i + 1, Append(word, s[i]), words)

Split(s) == SplitFrom(s, 1, <<>>, <<>>)

\* needle in hay (substring)
Contains(hay, needle) ==
    \E i \in 0..(Len(hay) - Len(needle)) :
        \A j \in 1..Len(needle) : hay[i + j] = needle[j]

\* set(words)
WordSet(s) ==
    LET words == Split(Lower(s)) IN {words[i] : i \in 1..Len(words)}

\* sorted(seq, key=..., reverse=True): Python's sort is stable, also when
\* reversed, so elements with equal keys keep their input order.  GT(x, y)
\* says that x's key is strictly greater than y's.
SortDescBy(seq, GT(_, _)) ==
    LET Sorted(s) ==
            LET n == Len(s)
                pos(i) == Cardinality({j \in 1..n :
                              \/ GT(s[j], s[i])
                              \/ (~GT(s[i], s[j]) /\ j < i)}) + 1
            IN  [p \in 1..n |-> s[CHOOSE i \in 1..n : pos(i) = p]]
    \* the bound s holds the value of seq, computed once
    IN  CHOOSE sorted \in {Sorted(s) : s \in {seq}} : TRUE

\* Python's None where an integer id is expected (dict.get without the key)
NoId == 0

(***************************************************************************)
(* Retrieved documents: langchain Document(page_content, metadata).        *)
(***************************************************************************)
Doc(chunk_id, document_id, content) ==
    [page_content |-> content,
     metadata |-> [chunk_id |-> chunk_id, document_id |-> document_id]]

\* a document whose metadata carries no chunk_id
DocNoChunkId(document_id, content) ==
    [page_content |-> content, metadata |-> [document_id |-> document_id]]

\* doc.metadata.get(key)
MetaGet(doc, key) ==
    IF key \in DOMAIN doc.metadata THEN doc.metadata[key] ELSE NoId

\* doc.metadata.get("chunk_id", str(doc.page_content)): the chunk id, or the
\* content itself as the key when the metadata has no chunk id
DocId(doc) ==
    IF "chunk_id" \in DOMAIN doc.metadata
    THEN [chunk_id |-> doc.metadata["chunk_id"], content |-> <<>>]
    ELSE [chunk_id |-> NoId, content |-> doc.page_content]

(***************************************************************************)
(* RAGService._reciprocal_rank_fusion                                      *)
(***************************************************************************)
\* scores are kept as integer multiples of 1/RRFDenom; RRFDenom is the least
\* common multiple of 60..64, so 1/(rank + 60) is exact for rank 0..4
RRFDenom == 64 * 9 * 5 * 7 * 31 * 61

\* a contribution with the rank counted from 1: 1 / (rank + 1 + 60)
ContributionOneBased(rank) == RRFDenom \div (rank + 1 + RRFK)

\* 1 / (rank + 60), rank as enumerate() gives it: 0 for the first element
Contribution(rank) == RRFDenom \div (rank + RRFK)

RECURSIVE SumSeq(_)
SumSeq(s) == IF s = <<>> THEN 0 ELSE Head(s) + SumSeq(Tail(s))

RECURSIVE Flatten(_)
Flatten(lists) ==
    IF lists = <<>> THEN <<>> ELSE Head(lists) \o Flatten(Tail(lists))

\* the keys of doc_scores in insertion order: each doc id once, in the order
\* of its first appearance over the lists
RECURSIVE KeysInOrder(_, _)
KeysInOrder(docs, seen) ==
    IF docs = <<>> THEN seen
    ELSE LET id == DocId(Head(docs))
         IN  KeysInOrder(Tail(docs),
                 IF \E i \in 1..Len(seen) : seen[i] = id
                 THEN seen ELSE Append(seen, id))

\* doc_scores[doc_id] after the scoring loop
DocScore(result_lists, id) ==
    SumSeq([l \in 1..Len(result_lists) |->
        SumSeq([i \in 1..Len(result_lists[l]) |->
            IF DocId(result_lists[l][i]) = id THEN Contribution(i - 1) ELSE 0])])

\* sorted(doc_scores.items(), key=score, reverse=True), the ids only
SortedDocIds(result_lists) ==
    LET GT(x, y) == DocScore(result_lists, x) > DocScore(result_lists, y)
    IN  SortDescBy(KeysInOrder(Flatten(result_lists), <<>>), GT)

\* the loop over result_lists for one doc id: the first document with that id
\* of every list is appended, until final_results holds k documents
RECURSIVE RebuildLists(_, _, _, _, _)
RebuildLists(id, result_lists, l, final, k) ==
    IF l > Len(result_lists) THEN final
    ELSE LET list == result_lists[l]
             hits == {i \in 1..Len(list) : DocId(list[i]) = id}
             next == IF hits = {} THEN final
                     ELSE Append(final,
                              list[CHOOSE i \in hits : \A j \in hits : i <= j])
         IN  IF Len(next) = k THEN next
             ELSE RebuildLists(id, result_lists, l + 1, next, k)

RECURSIVE RebuildDocs(_, _, _, _, _)
RebuildDocs(ids, n, result_lists, final, k) ==
    IF n > Len(ids) THEN final
    ELSE LET next == RebuildLists(ids[n], result_lists, 1, final, k)
         IN  IF Len(next) = k THEN next
             ELSE RebuildDocs(ids, n + 1, result_lists, next, k)

ReciprocalRankFusion(result_lists, k) ==
    RebuildDocs(Take(SortedDocIds(result_lists), k), 1, result_lists, <<>>, k)

(***************************************************************************)
(* RAGService._calculate_relevance_score and _rerank_chunks                *)
(***************************************************************************)
\* len(intersection) / len(union) as the fraction <<num, den>>; 0.0 is <<0, 1>>
CalculateRelevanceScore(question, content) ==
    LET question_words == WordSet(question)
        content_words == WordSet(content)
        intersection == question_words \cap content_words
        union == question_words \cup content_words
    IN  IF Cardinality(union) = 0 THEN <<0, 1>>
        ELSE <<Cardinality(intersection), Cardinality(union)>>

FracGT(a, b) == a[1] * b[2] > b[1] * a[2]

FracEq(a, b) == a[1] * b[2] = b[1] * a[2]

\* the sort key of _rerank_chunks
RelevanceOf(question, chunk) == CalculateRelevanceScore(question, chunk.page_content)

\* the chunks with their sort keys, each key computed once
Keyed(question, chunks) ==
    SubSeq([i \in 1..Len(chunks) |->
               [chunk |-> chunks[i], key |-> RelevanceOf(question, chunks[i])]],
           1, Len(chunks))

KeyGT(x, y) == FracGT(x.key, y.key)

\* a stage that leaves out the chunks that share no word with the question
RerankStageDropsUnrelated(question, chunks) ==
    LET related == SelectSeq(Keyed(question, chunks), LAMBDA c : c.key[1] > 0)
        sorted == SortDescBy(related, KeyGT)
    IN  [i \in 1..Len(sorted) |-> sorted[i].chunk]

\* a stage that sorts ascending and reverses the result, which turns the
\* chunks of equal score around
RerankStageTiesReversed(question, chunks) ==
    LET keyed == Keyed(question, chunks)
        reversed == [i \in 1..Len(keyed) |-> keyed[Len(keyed) + 1 - i]]
        sorted == SortDescBy(reversed, KeyGT)
    IN  [i \in 1..Len(sorted) |-> sorted[i].chunk]

\* sorted(chunks, key=relevance, reverse=True)
RerankStage(question, chunks) ==
    LET sorted == SortDescBy(Keyed(question, chunks), KeyGT)
    IN  [i \in 1..Len(sorted) |-> sorted[i].chunk]

RerankChunks(question, chunks) ==
    Take(RerankStage(question, chunks), RerankTopN)

(***************************************************************************)
(* RAGService._extract_citations and _calculate_confidence_score           *)
(***************************************************************************)
\* any(word in answer.lower() for word in chunk.page_content.lower().split()[:10])
Qualifies(answer, chunk) ==
    LET words == Take(Split(Lower(chunk.page_content)), MaxCitationWords)
        lowered == Lower(answer)
    IN  \E i \in 1..Len(words) : Contains(lowered, words[i])

\* a citation whose span is measured on the chunk instead of the answer
CitationOfSpanInChunk(answer, chunk) ==
    [chunk_id |-> MetaGet(chunk, "chunk_id"),
     document_id |-> MetaGet(chunk, "document_id"),
     span_start |-> 0,
     span_end |-> Len(chunk.page_content),
     confidence |-> CitationConfidence]

CitationOf(answer, chunk) ==
    [chunk_id |-> MetaGet(chunk, "chunk_id"),
     document_id |-> MetaGet(chunk, "document_id"),
     span_start |-> 0,
     span_end |-> 0,
     confidence |-> CitationConfidence]

ExtractCitations(answer, chunks) ==
    LET cited == SelectSeq(chunks, LAMBDA chunk : Qualifies(answer, chunk))
    IN  [i \in 1..Len(cited) |-> CitationOf(answer, cited[i])]

\* the score without the early return for an empty citation list
CalculateConfidenceScoreNoFloor(answer, citations) ==
    Min(Len(citations) * CitationWeight, CitationCap)
    + Min(Len(answer), LengthCap) + BaseConfidence

\* 0.3 without citations, else
\* min(len(citations) * 0.2, 0.6) + min(len(answer) / 1000, 0.2) + 0.2
CalculateConfidenceScore(answer, citations) ==
    IF citations = <<>> THEN ConfidenceFloor
    ELSE Min(Len(citations) * CitationWeight, CitationCap)
         + Min(Len(answer), LengthCap) + BaseConfidence

(***************************************************************************)
(* The state.                                                              *)
(***************************************************************************)
VARIABLES
    \* ask requests (endpoints/rag.py ask_question, RAGService.ask_question)
    pc,               \* where each run is: a graph node, a commit, done, failed
    req,              \* the request of each run: question, user_id, tenant_id
    state,            \* the graph state of each run (RAGState)
    answer_id,        \* answer.id of the row the run committed, NoId before
    http,             \* the status the endpoint answered with, 0 before
    answers,          \* the committed rows of table "answers"
    citations,        \* the committed rows of table "citations"
    next_answer_id,   \* the primary-key sequences
    next_citation_id,
    gen_calls,        \* history: invocations of the generation chain per run
    prior             \* history: the runs that had returned when the run began

VARIABLES
    \* AdvancedRAGPipeline.query (advanced_rag.py)
    adv_pc,           \* "off", "idle", a graph node, "done" or "failed"
    adv_rerankers,    \* self.rerankers: the stages the factory created
    adv,              \* the graph state (RAGState)
    adv_calls,        \* history: how each retriever's call ended in retrieve()
    search            \* GET /search (search_chunks): how the call went

VARIABLES
    \* one call of each fusion function on the same result lists
    fu_done,          \* which fusion has run: "rag", "adv"; {"off"} when unused
    result_lists,     \* the ranked lists handed in: <<vector>> or <<vector, keyword>>
    fu_k,             \* the k handed to RAGService._reciprocal_rank_fusion
    sorted_docs,      \* its sorted_docs: <<[doc_id, score], ...>>
    final_results,    \* its return value
    adv_fused         \* the return value of HybridRetriever._fuse_results

VARIABLES
    \* ingestion (RAGService.process_document), one job per call
    ing_pc,           \* "idle", "embed", "done" or "failed" ("off" when unused)
    ing_doc,          \* document.id
    ing_content,      \* the text handed in
    text_chunks,      \* what the splitter returned
    ing_i,            \* the loop index i: chunks embedded and added so far
    ing_pending,      \* the chunk rows added to the session, not yet committed
    document_chunks,  \* the committed rows of table "document_chunks"
    next_chunk_id     \* its primary-key sequence

VARIABLES
    \* one reranker stage applied to one candidate list
    rr_pc,            \* "ready" or "done" ("off" when unused)
    rr_question,      \* the question
    rr_in,            \* the candidates handed to the stage
    rr_stage,         \* the stage applied: "rag", "cross_encoder", "lightweight_llm",
                      \* or "chain" for the stages of _rerank_node in sequence
    rr_stage_in,      \* the candidate list each stage was called with, in order
    rr_out,           \* the stage's candidates, before any cap
    rr_scores,        \* their new scores, as fractions <<num, den>>
    rr_capped         \* what the rerank node hands on: the capped list

VARIABLES
    \* what the caller of an ask run has asked for while the run was under way
    cancel_at         \* the node that was executing when the caller asked for
                      \* the run to be cancelled, "none" without such a request

VARIABLES
    \* core/websocket.py: the ConnectionManager `manager` and the coroutines
    \* that use it
    active_connections, \* tenant -> user -> websocket
    connection_users,   \* websocket -> user_id, tenant_id
    ws_registered,      \* history: what each websocket was given to connect with
    bc,                 \* the broadcast_to_tenant call under way, if any
    pm,                 \* the send_personal_message call under way, if any
    delivered           \* history: the send_text calls that returned

askVars == <<pc, req, state, answer_id, http, answers, citations,
             next_answer_id, next_citation_id, gen_calls, prior>>

advVars == <<adv_pc, adv_rerankers, adv, adv_calls, search>>

fusionVars == <<fu_done, result_lists, fu_k, sorted_docs, final_results, adv_fused>>

ingestVars == <<ing_pc, ing_doc, ing_content, text_chunks, ing_i, ing_pending,
                document_chunks, next_chunk_id>>

rerankVars == <<rr_pc, rr_question, rr_in, rr_stage, rr_stage_in, rr_out, rr_scores,
               rr_capped>>

cancelVars == <<cancel_at>>

wsVars == <<active_connections, connection_users, ws_registered, bc, pm, delivered>>

vars == <<askVars, advVars, fusionVars, ingestVars, rerankVars, cancelVars, wsVars>>

(***************************************************************************)
(* Inputs of the ask specification.                                        *)
(***************************************************************************)
Runs == 1..NumRuns

Users == {1, 2}

\* current_tenant of the request of a user
TenantOf(user_id) == user_id

\* QuestionRequest.max_citations: Field(5, ge=1, le=20)
DefaultMaxCitations == 5
MinMaxCitations == 1

\* the max_citations a request carries: the default, the least allowed
MaxCitationsChoices == {DefaultMaxCitations, MinMaxCitations}

QTax == <<"t", "a", "x">>
QVat == <<"v", "a", "t">>
Questions == {QTax, QVat}

\* the chunks of the tenant's corpus
ChunkTax == Doc(1, 1, <<"t", "a", "x", " ", "d", "u", "e">>)
ChunkVat == Doc(2, 1, <<"v", "a", "t", " ", "i", "s", " ", "l", "a", "w">>)

\* what vector_store.similarity_search may return (an external store): nothing
\* above the score threshold, one chunk, two chunks
VectorResultChoices == {<<>>, <<ChunkTax>>, <<ChunkTax, ChunkVat>>}

\* the response the prompt asks for when the context is not enough
InsufficientInfo ==
    <<"I", " ", "d", "o", "n", "'", "t", " ", "h", "a", "v", "e", " ",
      "e", "n", "o", "u", "g", "h", " ", "i", "n", "f", "o", "r", "m", "a",
      "t", "i", "o", "n", " ", "t", "o", " ", "a", "n", "s", "w", "e", "r",
      " ", "t", "h", "i", "s", " ", "q", "u", "e", "s", "t", "i", "o", "n">>

AnswerTaxDue == <<"T", "a", "x", " ", "i", "s", " ", "d", "u", "e">>

\* what the generation chain may return (an external model): the refusal,
\* an answer about tax, the empty string
LLMOutputs == {InsufficientInfo, AnswerTaxDue, <<>>}

(***************************************************************************)
(* RAGService._build_rag_graph: the nodes and edges of the graph.          *)
(***************************************************************************)
EntryPoint == "retrieve"

\* the graph with the edge out of "retrieve" drawn past "rerank"
NextNodeSkipsRerank(node) ==
    CASE node = "retrieve" -> "generate"
      [] node = "rerank" -> "generate"
      [] node = "generate" -> "validate"
      [] node = "validate" -> "END"

NextNode(node) ==
    CASE node = "retrieve" -> "rerank"
      [] node = "rerank" -> "generate"
      [] node = "generate" -> "validate"
      [] node = "validate" -> "END"

\* where a run goes after a node: along the edge, and after END back into
\* ask_question, which saves the answer
AfterNode(node) ==
    IF NextNode(node) = "END" THEN "save_answer" ELSE NextNode(node)

\* rag_graph.ainvoke({"question": question}): the keys a node has not yet
\* written are held as empty values
InitialState(question) ==
    [question |-> question, retrieved_chunks |-> <<>>, answer |-> <<>>,
     citations |-> <<>>, confidence_score |-> 0]

(***************************************************************************)
(* schemas/rag.py: the response models of the /ask endpoint.               *)
(***************************************************************************)
\* CitationResponse: chunk_id and document_id are required integers, the
\* confidence lies in [0, 1]
CitationResponseValid(c) ==
    /\ c.chunk_id # NoId
    /\ c.document_id # NoId
    /\ 0 <= c.confidence /\ c.confidence <= 1000

\* the fields AnswerResponse requires (Field(...))
AnswerResponseRequired == {"answer", "confidence_score", "answer_id", "model_used"}

\* the fields the endpoint passes to AnswerResponse
AnswerResponseGiven == {"answer", "citations", "confidence_score", "answer_id"}

\* the status of the endpoint once ask_question has returned result: 200 when
\* every response model validates, else the except branch answers 500
ResponseStatus(result) ==
    IF /\ \A i \in 1..Len(result.citations) : CitationResponseValid(result.citations[i])
       /\ AnswerResponseRequired \subseteq AnswerResponseGiven
       /\ 0 <= result.confidence_score /\ result.confidence_score <= 1000
    THEN 200 ELSE 500

(***************************************************************************)
(* The ask request, step by step.                                          *)
(***************************************************************************)
InitAsk ==
    /\ pc = [r \in Runs |-> "idle"]
    /\ req = [r \in Runs |-> [question |-> <<>>, user_id |-> NoId, tenant_id |-> NoId,
                             max_citations |-> 0]]
    /\ state = [r \in Runs |-> InitialState(<<>>)]
    /\ answer_id = [r \in Runs |-> NoId]
    /\ http = [r \in Runs |-> 0]
    /\ answers = {}
    /\ citations = {}
    /\ next_answer_id = 1
    /\ next_citation_id = 1
    /\ gen_calls = [r \in Runs |-> 0]
    /\ prior = [r \in Runs |-> {}]

\* an exception leaves ask_question: the graph state of the run is dropped
\* with the frame, the endpoint's except branch answers 500; nothing is rolled
\* back beyond the session's uncommitted objects
Raise(r) ==
    /\ pc' = [pc EXCEPT ![r] = "failed"]
    /\ http' = [http EXCEPT ![r] = 500]
    /\ state' = [state EXCEPT ![r] = InitialState(req[r].question)]

\* POST /ask: the endpoint calls ask_question, which invokes the graph
AskStart(r) ==
    /\ pc[r] = "idle"
    /\ \E question \in Questions, user_id \in Users,
          max_citations \in MaxCitationsChoices :
        /\ req' = [req EXCEPT ![r] = [question |-> question, user_id |-> user_id,
                                      tenant_id |-> TenantOf(user_id),
                                      max_citations |-> max_citations]]
        /\ state' = [state EXCEPT ![r] = InitialState(question)]
    /\ pc' = [pc EXCEPT ![r] = EntryPoint]
    /\ prior' = [prior EXCEPT ![r] = {x \in Runs : pc[x] = "done"}]
    /\ UNCHANGED <<answer_id, http, answers, citations, next_answer_id,
                   next_citation_id, gen_calls>>

\* node "retrieve"
RetrieveChunks(r) ==
    /\ pc[r] = "retrieve"
    /\ \E vector_results \in VectorResultChoices :
        state' = [state EXCEPT ![r].retrieved_chunks =
                     ReciprocalRankFusion(<<vector_results>>, FusionTopK)]
    /\ pc' = [pc EXCEPT ![r] = AfterNode("retrieve")]
    /\ UNCHANGED <<req, answer_id, http, answers, citations, next_answer_id,
                   next_citation_id, gen_calls, prior>>

\* the vector store raises
RetrieveFails(r) ==
    /\ pc[r] = "retrieve"
    /\ Raise(r)
    /\ UNCHANGED <<req, answer_id, answers, citations, next_answer_id,
                   next_citation_id, gen_calls, prior>>

\* node "rerank"
RerankNode(r) ==
    /\ pc[r] = "rerank"
    /\ state' = [state EXCEPT ![r].retrieved_chunks =
                    RerankChunks(state[r].question, state[r].retrieved_chunks)]
    /\ pc' = [pc EXCEPT ![r] = AfterNode("rerank")]
    /\ UNCHANGED <<req, answer_id, http, answers, citations, next_answer_id,
                   next_citation_id, gen_calls, prior>>

\* node "generate": the chain is invoked and returns some answer
GenerateAnswer(r) ==
    /\ pc[r] = "generate"
    /\ \E answer \in LLMOutputs :
        state' = [state EXCEPT ![r].answer = answer]
    /\ gen_calls' = [gen_calls EXCEPT ![r] = @ + 1]
    /\ pc' = [pc EXCEPT ![r] = AfterNode("generate")]
    /\ UNCHANGED <<req, answer_id, http, answers, citations, next_answer_id,
                   next_citation_id, prior>>

\* node "generate": the chain is invoked and raises
GenerateFails(r) ==
    /\ pc[r] = "generate"
    /\ gen_calls' = [gen_calls EXCEPT ![r] = @ + 1]
    /\ Raise(r)
    /\ UNCHANGED <<req, answer_id, answers, citations, next_answer_id,
                   next_citation_id, prior>>

\* node "validate"
ValidateAnswer(r) ==
    /\ pc[r] = "validate"
    /\ LET cits == ExtractCitations(state[r].answer, state[r].retrieved_chunks)
       IN  state' = [state EXCEPT
                ![r].citations = cits,
                ![r].confidence_score =
                    CalculateConfidenceScore(state[r].answer, cits)]
    /\ pc' = [pc EXCEPT ![r] = AfterNode("validate")]
    /\ UNCHANGED <<req, answer_id, http, answers, citations, next_answer_id,
                   next_citation_id, gen_calls, prior>>

\* the Answer row ask_question builds from the graph's result
AnswerRow(r, id) ==
    [id |-> id,
     question |-> req[r].question,
     answer_text |-> state[r].answer,
     confidence_score |-> state[r].confidence_score,
     citation_count |-> Len(state[r].citations),
     user_id |-> req[r].user_id,
     run |-> r]

\* the Citation rows ask_question builds, with the primary keys from first
CitationRows(r, first) ==
    {[id |-> first + i - 1,
      answer_id |-> answer_id[r],
      source_chunk_id |-> state[r].citations[i].chunk_id,
      source_document_id |-> state[r].citations[i].document_id,
      span_start |-> state[r].citations[i].span_start,
      span_end |-> state[r].citations[i].span_end,
      confidence_score |-> state[r].citations[i].confidence]
     : i \in 1..Len(state[r].citations)}

\* db.add(answer); db.commit()
SaveAnswer(r) ==
    /\ pc[r] = "save_answer"
    /\ answers' = answers \cup {AnswerRow(r, next_answer_id)}
    /\ answer_id' = [answer_id EXCEPT ![r] = next_answer_id]
    /\ next_answer_id' = next_answer_id + 1
    /\ pc' = [pc EXCEPT ![r] = "save_citations"]
    /\ UNCHANGED <<req, state, http, citations, next_citation_id, gen_calls, prior>>

\* the first commit raises: the answer is not stored
SaveAnswerFails(r) ==
    /\ pc[r] = "save_answer"
    /\ Raise(r)
    /\ UNCHANGED <<req, answer_id, answers, citations, next_answer_id,
                   next_citation_id, gen_calls, prior>>

\* the result ask_question returns
Result(r) ==
    [answer |-> state[r].answer,
     citations |-> state[r].citations,
     confidence_score |-> state[r].confidence_score,
     answer_id |-> answer_id[r]]

\* db.add(citation) for every citation; db.commit(); return; the endpoint
\* builds its response
SaveCitations(r) ==
    /\ pc[r] = "save_citations"
    /\ citations' = citations \cup CitationRows(r, next_citation_id)
    /\ next_citation_id' = next_citation_id + Len(state[r].citations)
    /\ pc' = [pc EXCEPT ![r] = "done"]
    /\ http' = [http EXCEPT ![r] = ResponseStatus(Result(r))]
    /\ UNCHANGED <<req, state, answer_id, answers, next_answer_id, gen_calls, prior>>

\* the second commit raises: the citations are not stored, the answer row of
\* the first commit stays
SaveCitationsFails(r) ==
    /\ pc[r] = "save_citations"
    /\ Raise(r)
    /\ UNCHANGED <<req, answer_id, answers, citations, next_answer_id,
                   next_citation_id, gen_calls, prior>>

(***************************************************************************)
(* The caller of POST /ask and the run it started.                         *)
(***************************************************************************)
\* the nodes of the graph: while a run stands at one of them, ask_question
\* awaits rag_graph.ainvoke
GraphNodes == {"retrieve", "rerank", "generate", "validate"}

\* no caller has asked for a cancellation
CancelOff == cancel_at = [r \in Runs |-> "none"]

\* the caller asks for the run to be cancelled (it gives up on the request)
\* while ask_question awaits the graph.  No flag, handler or parameter of the
\* endpoint, of ask_question or of the graph takes the request: no state of
\* the run changes.
RequestCancel(r) ==
    /\ pc[r] \in GraphNodes
    /\ cancel_at[r] = "none"
    /\ cancel_at' = [cancel_at EXCEPT ![r] = pc[r]]
    /\ UNCHANGED askVars

(***************************************************************************)
(* core/websocket.py: ConnectionManager.                                   *)
(* A dict is held as its entries in insertion order.  A deleted entry      *)
(* stays in the sequence, marked dead, as in CPython's entry table: the    *)
(* iterator of a dict walks the table and raises when the number of live   *)
(* entries differs from the number it saw when it was created.  No dict    *)
(* of the model gets more entries than the table holds before a resize.    *)
(***************************************************************************)
NumSockets == 2

Sockets == 1..NumSockets

\* user ids are strings; the same user id exists in both tenants
WsUsers == {"u1", "u2"}

Tenants == {"t1", "t2"}

\* exclude_user: Optional[str] = None
NoUser == "None"

\* the live entries of a dict, in order
LiveEntries(entries) == SelectSeq(entries, LAMBDA e : e.live)

\* len(d)
Used(entries) == Len(LiveEntries(entries))

\* key in d
HasKey(entries, user_id) ==
    \E i \in 1..Len(entries) : entries[i].live /\ entries[i].user_id = user_id

\* d[key]
GetItem(entries, user_id) ==
    entries[CHOOSE i \in 1..Len(entries) :
                entries[i].live /\ entries[i].user_id = user_id].websocket

\* d[key] = value: an existing key keeps its place, a new key goes to the end
SetItem(entries, user_id, websocket) ==
    IF HasKey(entries, user_id)
    THEN [i \in 1..Len(entries) |->
            IF entries[i].live /\ entries[i].user_id = user_id
            THEN [entries[i] EXCEPT !.websocket = websocket]
            ELSE entries[i]]
    ELSE Append(entries, [user_id |-> user_id, websocket |-> websocket,
                          live |-> TRUE])

\* del d[key]
DelItem(entries, user_id) ==
    [i \in 1..Len(entries) |->
        IF entries[i].live /\ entries[i].user_id = user_id
        THEN [entries[i] EXCEPT !.live = FALSE]
        ELSE entries[i]]

\* a tenant without a dict in active_connections
NoTenantDict == [present |-> FALSE, entries |-> <<>>]

\* a websocket without an entry in connection_users
NoUserInfo == [present |-> FALSE, user_id |-> NoUser, tenant_id |-> NoUser]

\* the result of disconnect(websocket) on the two registries
DisconnectActive(active, users, websocket) ==
    IF ~users[websocket].present THEN active
    ELSE LET tenant_id == users[websocket].tenant_id
             user_id == users[websocket].user_id
         IN  IF ~active[tenant_id].present THEN active
             ELSE LET entries == IF HasKey(active[tenant_id].entries, user_id)
                                 THEN DelItem(active[tenant_id].entries, user_id)
                                 ELSE active[tenant_id].entries
                  IN  IF Used(entries) = 0
                      THEN [active EXCEPT ![tenant_id] = NoTenantDict]
                      ELSE [active EXCEPT ![tenant_id].entries = entries]

DisconnectUsers(users, websocket) ==
    [users EXCEPT ![websocket] = NoUserInfo]

\* no broadcast_to_tenant call has been made
BcIdle ==
    [pc |-> "idle", tenant_id |-> NoUser, exclude_user |-> NoUser,
     di_used |-> 0, di_pos |-> 0, detached |-> FALSE,
     user_id |-> NoUser, websocket |-> 0, disconnected_users |-> <<>>,
     stayed |-> {}, sent |-> {}]

\* no send_personal_message call has been made
PmIdle ==
    [pc |-> "idle", tenant_id |-> NoUser, user_id |-> NoUser, websocket |-> 0]

WsOff ==
    /\ active_connections = [t \in Tenants |-> NoTenantDict]
    /\ connection_users = [w \in Sockets |-> NoUserInfo]
    /\ ws_registered = [w \in Sockets |-> NoUserInfo]
    /\ bc = BcIdle
    /\ pm = PmIdle
    /\ delivered = {}

\* manager = ConnectionManager()
InitWs == WsOff

\* what a change of active_connections means to the broadcast suspended in a
\* send: the dict it iterates may have been deleted from active_connections
\* (a dict made later for the tenant is another object), and a user whose
\* entry is gone has not stayed connected
Suspended(b, active) ==
    IF b.pc # "sending" THEN b
    ELSE LET gone == b.detached \/ ~active[b.tenant_id].present
         IN  [b EXCEPT !.detached = gone,
                       !.stayed = IF gone THEN {}
                                  ELSE {u \in @ : HasKey(active[b.tenant_id].entries, u)}]

\* the first live entry of the table after position pos, 0 if there is none
NextLive(entries, pos) ==
    IF \E i \in (pos + 1)..Len(entries) : entries[i].live
    THEN CHOOSE i \in (pos + 1)..Len(entries) :
            /\ entries[i].live
            /\ \A j \in (pos + 1)..(i - 1) : ~entries[j].live
    ELSE 0

\* the for loop of broadcast_to_tenant from one step of the dict iterator to
\* the next await: the iterator raises RuntimeError when the dict changed
\* size, the loop ends after the last entry ("cleanup"), the excluded user is
\* passed over, and for any other user send_text is awaited ("sending")
RECURSIVE BroadcastLoop(_, _)
BroadcastLoop(b, active) ==
    LET entries == IF b.detached THEN <<>> ELSE active[b.tenant_id].entries
        i == NextLive(entries, b.di_pos)
    IN  IF Used(entries) # b.di_used THEN [b EXCEPT !.pc = "raised"]
        ELSE IF i = 0 THEN [b EXCEPT !.pc = "cleanup"]
        ELSE IF entries[i].user_id = b.exclude_user
             THEN BroadcastLoop([b EXCEPT !.di_pos = i], active)
             ELSE [b EXCEPT !.pc = "sending", !.di_pos = i,
                            !.user_id = entries[i].user_id,
                            !.websocket = entries[i].websocket]

\* the second loop of broadcast_to_tenant: disconnect whatever websocket is
\* now stored for each user a send failed for
RECURSIVE CleanUp(_, _, _, _)
CleanUp(disconnected_users, tenant_id, active, users) ==
    IF disconnected_users = <<>> THEN [active |-> active, users |-> users]
    ELSE LET user_id == Head(disconnected_users)
         IN  IF active[tenant_id].present /\ HasKey(active[tenant_id].entries, user_id)
             THEN LET websocket == GetItem(active[tenant_id].entries, user_id)
                  IN  CleanUp(Tail(disconnected_users), tenant_id,
                              DisconnectActive(active, users, websocket),
                              DisconnectUsers(users, websocket))
             ELSE CleanUp(Tail(disconnected_users), tenant_id, active, users)

\* broadcast_to_tenant runs on from b until it awaits a send, returns or
\* raises
BroadcastRuns(b) ==
    LET next == BroadcastLoop(b, active_connections)
    IN  IF next.pc = "cleanup"
        THEN LET cleaned == CleanUp(next.disconnected_users, next.tenant_id,
                                    active_connections, connection_users)
             IN  /\ bc' = [next EXCEPT !.pc = "returned"]
                 /\ active_connections' = cleaned.active
                 /\ connection_users' = cleaned.users
        ELSE /\ bc' = next
             /\ UNCHANGED <<active_connections, connection_users>>

\* connect(websocket, user_id, tenant_id) as websocket_endpoint calls it, with
\* a websocket that has just been opened; the websockets are numbered in the
\* order in which they are opened
Connect(websocket, user_id, tenant_id) ==
    /\ ~ws_registered[websocket].present
    /\ \A w \in 1..(websocket - 1) : ws_registered[w].present
    /\ LET info == [present |-> TRUE, user_id |-> user_id, tenant_id |-> tenant_id]
           active == [active_connections EXCEPT ![tenant_id] =
                         [present |-> TRUE,
                          entries |-> SetItem(@.entries, user_id, websocket)]]
       IN  /\ active_connections' = active
           /\ connection_users' = [connection_users EXCEPT ![websocket] = info]
           /\ ws_registered' = [ws_registered EXCEPT ![websocket] = info]
           /\ bc' = Suspended(bc, active)
    /\ UNCHANGED <<pm, delivered>>

\* disconnect(websocket) as websocket_endpoint calls it on WebSocketDisconnect
Disconnect(websocket) ==
    /\ ws_registered[websocket].present
    /\ LET active == DisconnectActive(active_connections, connection_users, websocket)
       IN  /\ active_connections' = active
           /\ bc' = Suspended(bc, active)
    /\ connection_users' = DisconnectUsers(connection_users, websocket)
    /\ UNCHANGED <<ws_registered, pm, delivered>>

\* a send_personal_message that looks the user up in whatever tenant has a
\* user of that id
PersonalStartAnyTenant(user_id, tenant_id) ==
    /\ pm.pc = "idle"
    /\ \E t \in Tenants :
        /\ active_connections[t].present
        /\ HasKey(active_connections[t].entries, user_id)
        /\ pm' = [pc |-> "sending", tenant_id |-> tenant_id, user_id |-> user_id,
                  websocket |-> GetItem(active_connections[t].entries, user_id)]
    /\ UNCHANGED <<active_connections, connection_users, ws_registered, bc, delivered>>

\* send_personal_message(message, user_id, tenant_id) up to its await
PersonalStart(user_id, tenant_id) ==
    /\ pm.pc = "idle"
    /\ active_connections[tenant_id].present
    /\ HasKey(active_connections[tenant_id].entries, user_id)
    /\ pm' = [pc |-> "sending", tenant_id |-> tenant_id, user_id |-> user_id,
              websocket |-> GetItem(active_connections[tenant_id].entries, user_id)]
    /\ UNCHANGED <<active_connections, connection_users, ws_registered, bc, delivered>>

\* send_text returns
PersonalSendReturns ==
    /\ pm.pc = "sending"
    /\ delivered' = delivered \cup
           {[kind |-> "personal", websocket |-> pm.websocket,
             tenant_id |-> pm.tenant_id, user_id |-> pm.user_id,
             exclude_user |-> NoUser]}
    /\ pm' = [pm EXCEPT !.pc = "returned"]
    /\ UNCHANGED <<active_connections, connection_users, ws_registered, bc>>

\* send_text raises: the except branch disconnects the websocket
PersonalSendRaises ==
    /\ pm.pc = "sending"
    /\ LET active == DisconnectActive(active_connections, connection_users, pm.websocket)
       IN  /\ active_connections' = active
           /\ bc' = Suspended(bc, active)
    /\ connection_users' = DisconnectUsers(connection_users, pm.websocket)
    /\ pm' = [pm EXCEPT !.pc = "returned"]
    /\ UNCHANGED <<ws_registered, delivered>>

\* broadcast_to_tenant(message, tenant_id, exclude_user) up to its first await
BroadcastStart(tenant_id, exclude_user) ==
    /\ bc.pc = "idle"
    /\ IF ~active_connections[tenant_id].present
       THEN /\ bc' = [BcIdle EXCEPT !.pc = "returned", !.tenant_id = tenant_id,
                                    !.exclude_user = exclude_user]
            /\ UNCHANGED <<active_connections, connection_users>>
       ELSE LET entries == LiveEntries(active_connections[tenant_id].entries)
            IN  BroadcastRuns(
                    [BcIdle EXCEPT
                        !.tenant_id = tenant_id,
                        !.exclude_user = exclude_user,
                        !.di_used = Len(entries),
                        !.stayed = {entries[i].user_id : i \in 1..Len(entries)}
                                       \ {exclude_user}])
    /\ UNCHANGED <<ws_registered, pm, delivered>>

\* the awaited send_text of the broadcast returns, and the loop goes on
BroadcastSendReturns ==
    /\ bc.pc = "sending"
    /\ delivered' = delivered \cup
           {[kind |-> "broadcast", websocket |-> bc.websocket,
             tenant_id |-> bc.tenant_id, user_id |-> NoUser,
             exclude_user |-> bc.exclude_user]}
    /\ BroadcastRuns([bc EXCEPT !.sent = @ \cup {bc.user_id}])
    /\ UNCHANGED <<ws_registered, pm>>

\* the awaited send_text of the broadcast raises: the user is noted for the
\* clean-up, and the loop goes on
BroadcastSendRaises ==
    /\ bc.pc = "sending"
    /\ BroadcastRuns([bc EXCEPT !.disconnected_users = Append(@, bc.user_id),
                                !.stayed = @ \ {bc.user_id}])
    /\ UNCHANGED <<ws_registered, pm, delivered>>

(***************************************************************************)
(* advanced_rag.py: HybridRetriever and AdvancedRAGPipeline.               *)
(***************************************************************************)
AdvRetrieveK == 20
AdvContextSize == 10
AdvConfidence == 950
AdvSpanEnd == 10

\* HybridRetriever._reciprocal_rank_fusion and _weighted_sum_fusion: both
\* return the two lists joined, every score 1.0
AdvReciprocalRankFusion(vector_docs, keyword_docs) ==
    [docs |-> vector_docs \o keyword_docs,
     scores |-> [i \in 1..(Len(vector_docs) + Len(keyword_docs)) |-> 1000]]

AdvWeightedSumFusion(vector_docs, keyword_docs) ==
    [docs |-> vector_docs \o keyword_docs,
     scores |-> [i \in 1..(Len(vector_docs) + Len(keyword_docs)) |-> 1000]]

\* HybridRetriever._fuse_results
FuseResults(vector_docs, keyword_docs, method) ==
    IF method = "reciprocal_rank"
    THEN AdvReciprocalRankFusion(vector_docs, keyword_docs)
    ELSE IF method = "weighted_sum"
         THEN AdvWeightedSumFusion(vector_docs, keyword_docs)
         ELSE AdvReciprocalRankFusion(vector_docs, keyword_docs)

\* HybridRetriever.retrieve: a RetrievalResult
HybridRetrieve(vector_docs, keyword_docs, method, k) ==
    LET fused == FuseResults(vector_docs, keyword_docs, method)
    IN  [documents |-> Take(fused.docs, k),
         scores |-> Take(fused.scores, k),
         metadata |-> [vector_count |-> Len(vector_docs),
                       keyword_count |-> Len(keyword_docs),
                       fusion_method |-> method]]

\* a reranker that hands on no more documents than the context holds
RerankKeepsContextSize(reranker, documents) ==
    [documents |-> Take(documents, AdvContextSize),
     scores |-> [i \in 1..Min(Len(documents), AdvContextSize) |-> 1000],
     reranker_type |-> reranker]

\* CrossEncoderReranker.rerank and LightweightLLMReranker.rerank: the documents
\* as they came, every score 1.0
Rerank(reranker, documents) ==
    [documents |-> documents,
     scores |-> [i \in 1..Len(documents) |-> 1000],
     reranker_type |-> reranker]

\* create_advanced_rag_pipeline: one stage per CROSS_ENCODER or LIGHTWEIGHT_LLM
\* entry of reranker_types, none for any other type
CreateRerankers(reranker_types) ==
    SelectSeq(reranker_types,
              LAMBDA t : t \in {"cross_encoder", "lightweight_llm"})

\* the reranker_types a caller may pass; the default is the first
RerankerTypeChoices ==
    {<<"cross_encoder">>, <<"cross_encoder", "lightweight_llm">>, <<"heuristic">>}

\* the loop of _rerank_node: every stage gets the previous stage's documents
RECURSIVE ApplyRerankers(_, _)
ApplyRerankers(rerankers, documents) ==
    IF rerankers = <<>> THEN documents
    ELSE ApplyRerankers(Tail(rerankers), Rerank(Head(rerankers), documents).documents)

\* the documents each stage of the loop of _rerank_node is called with
RECURSIVE RerankerInputs(_, _)
RerankerInputs(rerankers, documents) ==
    IF rerankers = <<>> THEN <<>>
    ELSE <<documents>>
         \o RerankerInputs(Tail(rerankers), Rerank(Head(rerankers), documents).documents)

\* f"Generated answer for: {question}"
GeneratedPrefix ==
    <<"G", "e", "n", "e", "r", "a", "t", "e", "d", " ", "a", "n", "s", "w",
      "e", "r", " ", "f", "o", "r", ":", " ">>

\* the answer of _generate_node
AdvAnswer(question) == GeneratedPrefix \o question

\* the citations of _cite_node: one fixed sample citation
AdvCitations(answer, documents) ==
    <<[text |-> "Sample citation", document_id |-> "doc_1",
       span |-> [start |-> 0, end |-> AdvSpanEnd]]>>

\* what the two retrievers of the advanced pipeline may return
AdvDocLists == {<<>>, <<ChunkTax>>, <<ChunkTax, ChunkVat>>}

\* the questions put to the advanced pipeline
AdvQuestions == {<<>>, QTax}

\* query(): the initial RAGState
AdvInitialState(question) ==
    [question |-> question, retrieved_chunks |-> <<>>, reranked_chunks |-> <<>>,
     answer |-> <<>>, citations |-> <<>>, confidence_score |-> 0,
     metadata |-> {}]

\* no retriever has been called
NoCalls == [vector |-> "none", keyword |-> "none", vector_docs |-> <<>>]

\* no search request has been made
NoSearch == [status |-> 0, vector |-> "none", results |-> <<>>]

AdvOff ==
    /\ adv_pc = "off"
    /\ adv_rerankers = <<>>
    /\ adv = AdvInitialState(<<>>)
    /\ adv_calls = NoCalls
    /\ search = NoSearch

AdvIdle ==
    /\ adv_pc = "idle"
    /\ adv_rerankers = <<>>
    /\ adv = AdvInitialState(<<>>)
    /\ adv_calls = NoCalls
    /\ search = NoSearch

\* create_advanced_rag_pipeline(...), then query(question)
AdvQuery ==
    /\ adv_pc = "idle"
    /\ \E types \in RerankerTypeChoices : adv_rerankers' = CreateRerankers(types)
    /\ \E question \in AdvQuestions : adv' = AdvInitialState(question)
    /\ adv_pc' = "retrieve"
    /\ UNCHANGED <<adv_calls, search>>

\* _retrieve_node calls retrieve(), which calls the vector retriever and
\* awaits it
AdvVectorStart ==
    /\ adv_pc = "retrieve"
    /\ adv_calls.vector = "none"
    /\ adv_calls' = [adv_calls EXCEPT !.vector = "in_flight"]
    /\ UNCHANGED <<adv_pc, adv, adv_rerankers, search>>

\* the vector retriever returns: vector_docs is bound
AdvVectorReturns ==
    /\ adv_pc = "retrieve"
    /\ adv_calls.vector = "in_flight"
    /\ \E vector_docs \in AdvDocLists :
        adv_calls' = [adv_calls EXCEPT !.vector = "returned",
                                       !.vector_docs = vector_docs]
    /\ UNCHANGED <<adv_pc, adv, adv_rerankers, search>>

\* the statement after the first await: the keyword retriever is called and
\* awaited
AdvKeywordStart ==
    /\ adv_pc = "retrieve"
    /\ adv_calls.vector = "returned"
    /\ adv_calls.keyword = "none"
    /\ adv_calls' = [adv_calls EXCEPT !.keyword = "in_flight"]
    /\ UNCHANGED <<adv_pc, adv, adv_rerankers, search>>

\* the keyword retriever returns; retrieve() fuses the two lists and
\* _retrieve_node returns
AdvRetrieveNode ==
    /\ adv_pc = "retrieve"
    /\ adv_calls.keyword = "in_flight"
    /\ \E keyword_docs \in AdvDocLists :
        LET result == HybridRetrieve(adv_calls.vector_docs, keyword_docs,
                                     "reciprocal_rank", AdvRetrieveK)
        IN  adv' = [adv EXCEPT !.retrieved_chunks = result.documents,
                               !.metadata = @ \cup {"retrieval"}]
    /\ adv_calls' = [adv_calls EXCEPT !.keyword = "returned"]
    /\ adv_pc' = "rerank"
    /\ UNCHANGED <<adv_rerankers, search>>

\* retrieve(): a retriever's aget_relevant_documents raises; nothing catches
\* it, so the node and query() raise.  The vector retriever is awaited first:
\* when it raises, the keyword retriever is never called.
AdvRetrieveFails ==
    /\ adv_pc = "retrieve"
    /\ \E backend \in {"vector", "keyword"} :
        /\ adv_calls[backend] = "in_flight"
        /\ adv_calls' = [adv_calls EXCEPT ![backend] = "raised"]
    /\ adv_pc' = "failed"
    /\ UNCHANGED <<adv, adv_rerankers, search>>

\* _rerank_node with at least one stage
AdvRerankNode ==
    /\ adv_pc = "rerank"
    /\ adv_rerankers # <<>>
    /\ adv' = [adv EXCEPT
            !.reranked_chunks =
                Take(ApplyRerankers(adv_rerankers, adv.retrieved_chunks), AdvContextSize),
            !.metadata = @ \cup {"reranking"}]
    /\ adv_pc' = "generate"
    /\ UNCHANGED <<adv_rerankers, adv_calls, search>>

\* _rerank_node without a stage: the loop body never binds result, and
\* result.metadata raises
AdvRerankFails ==
    /\ adv_pc = "rerank"
    /\ adv_rerankers = <<>>
    /\ adv_pc' = "failed"
    /\ UNCHANGED <<adv, adv_rerankers, adv_calls, search>>

\* _generate_node
AdvGenerateNode ==
    /\ adv_pc = "generate"
    /\ adv' = [adv EXCEPT !.answer = AdvAnswer(adv.question),
                          !.metadata = @ \cup {"generation"}]
    /\ adv_pc' = "validate"
    /\ UNCHANGED <<adv_rerankers, adv_calls, search>>

\* _validate_node
AdvValidateNode ==
    /\ adv_pc = "validate"
    /\ adv' = [adv EXCEPT !.confidence_score = AdvConfidence,
                          !.metadata = @ \cup {"validation"}]
    /\ adv_pc' = "cite"
    /\ UNCHANGED <<adv_rerankers, adv_calls, search>>

\* _cite_node, then END
AdvCiteNode ==
    /\ adv_pc = "cite"
    /\ adv' = [adv EXCEPT !.citations = AdvCitations(adv.answer, adv.reranked_chunks),
                          !.metadata = @ \cup {"citations"}]
    /\ adv_pc' = "done"
    /\ UNCHANGED <<adv_rerankers, adv_calls, search>>

\* the results search_chunks formats: content, metadata, and the score
\* attribute, which a Document does not have (getattr default 0.0)
FormatResults(results) ==
    [i \in 1..Len(results) |->
        [content |-> results[i].page_content,
         metadata |-> results[i].metadata,
         score |-> 0]]

\* GET /search: the vector store is the only backend queried
SearchChunks ==
    /\ adv_pc # "off"
    /\ search.status = 0
    /\ \E results \in AdvDocLists :
        search' = [status |-> 200, vector |-> "returned",
                   results |-> FormatResults(results)]
    /\ UNCHANGED <<adv_pc, adv_rerankers, adv, adv_calls>>

\* GET /search when similarity_search raises: except Exception answers 500
SearchChunksFails ==
    /\ adv_pc # "off"
    /\ search.status = 0
    /\ search' = [status |-> 500, vector |-> "raised", results |-> <<>>]
    /\ UNCHANGED <<adv_pc, adv_rerankers, adv, adv_calls>>

(***************************************************************************)
(* The fusion specification: both fusion functions applied to every pair   *)
(* of ranked lists of the bounded input sets.                              *)
(***************************************************************************)
DocA == Doc(1, 1, <<"a">>)
DocB == Doc(2, 1, <<"b">>)
DocC == Doc(3, 2, <<"c">>)
\* a document that is keyed by its content
DocX == DocNoChunkId(2, <<"x">>)

FusionDocs == {DocA, DocB, DocC, DocX}

\* a ranked list names a document once
RankedLists ==
    {l \in UNION {[1..n -> FusionDocs] : n \in 0..MaxListLen} :
        \A i \in 1..Len(l), j \in 1..Len(l) : l[i] = l[j] => i = j}

FusionInputs ==
    {<<v>> : v \in RankedLists} \cup {<<v, kw>> : v \in RankedLists, kw \in RankedLists}

\* sorted_docs of RAGService._reciprocal_rank_fusion
SortedDocs(lists) ==
    LET ids == SortedDocIds(lists)
    IN  [i \in 1..Len(ids) |-> [doc_id |-> ids[i], score |-> DocScore(lists, ids[i])]]

FusionOff ==
    /\ fu_done = {"off"}
    /\ result_lists = <<>>
    /\ fu_k = 0
    /\ sorted_docs = <<>>
    /\ final_results = <<>>
    /\ adv_fused = [docs |-> <<>>, scores |-> <<>>]

InitFusion ==
    /\ fu_done = {}
    /\ result_lists \in FusionInputs
    /\ fu_k \in (1..MaxK) \cup {FusionTopK}
    /\ sorted_docs = <<>>
    /\ final_results = <<>>
    /\ adv_fused = [docs |-> <<>>, scores |-> <<>>]

\* RAGService._reciprocal_rank_fusion(result_lists, k)
RagFuse ==
    /\ "off" \notin fu_done
    /\ "rag" \notin fu_done
    /\ sorted_docs' = SortedDocs(result_lists)
    /\ final_results' = ReciprocalRankFusion(result_lists, fu_k)
    /\ fu_done' = fu_done \cup {"rag"}
    /\ UNCHANGED <<result_lists, fu_k, adv_fused>>

\* HybridRetriever._fuse_results(vector_docs, keyword_docs, fusion_method)
AdvFuse ==
    /\ "off" \notin fu_done
    /\ "adv" \notin fu_done
    /\ Len(result_lists) = 2
    /\ \E method \in {"reciprocal_rank", "weighted_sum"} :
        adv_fused' = FuseResults(result_lists[1], result_lists[2], method)
    /\ fu_done' = fu_done \cup {"adv"}
    /\ UNCHANGED <<result_lists, fu_k, sorted_docs, final_results>>

(***************************************************************************)
(* Ingestion: RAGService.process_document.                                 *)
(***************************************************************************)
\* a text that is empty or holds only whitespace
IsBlank(text) == \A i \in 1..Len(text) : IsSpace(text[i])

\* the chunker (RecursiveCharacterTextSplitter.split_text is library code): a
\* text without separators is cut by characters into chunks of chunk_size
\* that start every chunk_size - overlap characters; the chunk that reaches
\* the end of the text is the last and may be shorter.  The library strips
\* whitespace and drops empty pieces, so a blank text yields no chunk; it
\* raises nothing.
SplitText(text, chunk_size, overlap) ==
    LET stride == chunk_size - overlap
        n == IF IsBlank(text) THEN 0
             ELSE IF Len(text) <= chunk_size THEN 1
             ELSE 1 + ((Len(text) - chunk_size + stride - 1) \div stride)
    IN  [i \in 1..n |->
            SubSeq(text, (i - 1) * stride + 1,
                   Min((i - 1) * stride + chunk_size, Len(text)))]

\* a text of n letters without separators
LetterText(n) == [i \in 1..n |-> LowerCase[((i - 1) % 26) + 1]]

\* the content the endpoint process_document_for_rag hands in
PlaceholderContent ==
    <<"S", "a", "m", "p", "l", "e", " ", "d", "o", "c", "u", "m", "e", "n",
      "t", " ", "c", "o", "n", "t", "e", "n", "t", " ", "f", "o", "r", " ",
      "p", "r", "o", "c", "e", "s", "s", "i", "n", "g", ".", ".", ".">>

\* the texts ingested: the placeholder, the empty text, a text of spaces, and
\* letter texts around the chunk size and its multiples
IngestTexts ==
    {PlaceholderContent, <<>>, <<" ", " ">>} \cup
    {LetterText(n) : n \in {1, 999, 1000, 1001, 1800, 1801, 2500, 2600}}

Jobs == {1, 2}

IngestDocuments == {1, 2}

\* the DocumentChunk process_document builds for text_chunks[i + 1]
ChunkRow(j, i, embedding) ==
    [document_id |-> ing_doc[j],
     chunk_type |-> "text",
     content |-> text_chunks[j][i + 1],
     page_number |-> 1,
     start_position |-> i * PositionStride,
     end_position |-> (i + 1) * PositionStride,
     embedding_model |-> "text-embedding-3-large",
     embedding |-> embedding,
     chunk_index |-> i,
     job |-> j]

\* db.commit(): the session's rows get their primary keys
CommittedRows(rows, first) ==
    {[row |-> rows[n], id |-> first + n - 1] : n \in 1..Len(rows)}

IngestOff ==
    /\ ing_pc = [j \in Jobs |-> "off"]
    /\ ing_doc = [j \in Jobs |-> NoId]
    /\ ing_content = [j \in Jobs |-> <<>>]
    /\ text_chunks = [j \in Jobs |-> <<>>]
    /\ ing_i = [j \in Jobs |-> 0]
    /\ ing_pending = [j \in Jobs |-> <<>>]
    /\ document_chunks = {}
    /\ next_chunk_id = 1

InitIngest ==
    /\ ing_pc = [j \in Jobs |-> "idle"]
    /\ ing_doc = [j \in Jobs |-> NoId]
    /\ ing_content = [j \in Jobs |-> <<>>]
    /\ text_chunks = [j \in Jobs |-> <<>>]
    /\ ing_i = [j \in Jobs |-> 0]
    /\ ing_pending = [j \in Jobs |-> <<>>]
    /\ document_chunks = {}
    /\ next_chunk_id = 1

\* process_document(db, document, content): the text is split; without a
\* chunk the loop is skipped, the empty session is committed and the call
\* returns an empty list
IngestStart(j) ==
    /\ ing_pc[j] = "idle"
    /\ \E document \in IngestDocuments, content \in IngestTexts :
        /\ ing_doc' = [ing_doc EXCEPT ![j] = document]
        /\ ing_content' = [ing_content EXCEPT ![j] = content]
        /\ text_chunks' = [text_chunks EXCEPT ![j] =
                              SplitText(content, ChunkSize, ChunkOverlap)]
        /\ ing_pc' = [ing_pc EXCEPT ![j] =
                         IF SplitText(content, ChunkSize, ChunkOverlap) = <<>>
                         THEN "done" ELSE "embed"]
    /\ UNCHANGED <<ing_i, ing_pending, document_chunks, next_chunk_id>>

\* one turn of the loop: the embedding arrives, the chunk is added to the
\* session; after the last chunk the session is committed and the call returns
IngestEmbed(j) ==
    /\ ing_pc[j] = "embed"
    /\ ing_i[j] < Len(text_chunks[j])
    /\ LET added == Append(ing_pending[j], ChunkRow(j, ing_i[j], "vector"))
       IN  IF ing_i[j] + 1 < Len(text_chunks[j])
           THEN /\ ing_pending' = [ing_pending EXCEPT ![j] = added]
                /\ UNCHANGED <<ing_pc, document_chunks, next_chunk_id>>
           ELSE /\ document_chunks' =
                        document_chunks \cup CommittedRows(added, next_chunk_id)
                /\ next_chunk_id' = next_chunk_id + Len(added)
                /\ ing_pending' = [ing_pending EXCEPT ![j] = <<>>]
                /\ ing_pc' = [ing_pc EXCEPT ![j] = "done"]
    /\ ing_i' = [ing_i EXCEPT ![j] = @ + 1]
    /\ UNCHANGED <<ing_doc, ing_content, text_chunks>>

\* aembed_query raises: the exception leaves process_document before the
\* commit, the session's rows are dropped
IngestEmbedFails(j) ==
    /\ ing_pc[j] = "embed"
    /\ ing_i[j] < Len(text_chunks[j])
    /\ ing_pending' = [ing_pending EXCEPT ![j] = <<>>]
    /\ ing_pc' = [ing_pc EXCEPT ![j] = "failed"]
    /\ UNCHANGED <<ing_doc, ing_content, text_chunks, ing_i, document_chunks,
                   next_chunk_id>>

(***************************************************************************)
(* One reranker stage on its own: the sort of RAGService._rerank_chunks    *)
(* and the rerankers of advanced_rag.py.                                   *)
(***************************************************************************)
\* the candidates: chunks that tie for either question, chunks that share no
\* word with it, and a chunk in capitals
ChunkTaxLaw == Doc(3, 1, <<"t", "a", "x", " ", "l", "a", "w">>)
ChunkDue == Doc(4, 2, <<"d", "u", "e">>)
ChunkTaxCaps == Doc(5, 2, <<"T", "A", "X">>)
ChunkLaw == Doc(6, 2, <<"l", "a", "w">>)

\* more candidates than the context of either pipeline holds
LongCandidates ==
    SubSeq([i \in 1..(AdvContextSize + 2) |-> Doc(100 + i, 9, <<"t", "a", "x">>)],
           1, AdvContextSize + 2)

RerankPool == {ChunkTax, ChunkVat, ChunkTaxLaw, ChunkDue, ChunkTaxCaps, ChunkLaw}

\* a candidate list names a chunk once: the lists of at most MaxChunks
\* candidates, and one list longer than the cap of the rerank node
RerankInputs ==
    {l \in UNION {[1..n -> RerankPool] : n \in 0..MaxChunks} :
        \A i \in 1..Len(l), j \in 1..Len(l) : l[i] = l[j] => i = j}
    \cup {<<ChunkDue, ChunkTax, ChunkVat, ChunkTaxLaw, ChunkLaw, ChunkTaxCaps>>,
          LongCandidates}

RerankOff ==
    /\ rr_pc = "off"
    /\ rr_question = <<>>
    /\ rr_in = <<>>
    /\ rr_stage = "none"
    /\ rr_stage_in = <<>>
    /\ rr_out = <<>>
    /\ rr_scores = <<>>
    /\ rr_capped = <<>>

InitRerank ==
    /\ rr_pc = "ready"
    /\ rr_question \in Questions
    /\ rr_in \in RerankInputs
    /\ rr_stage = "none"
    /\ rr_stage_in = <<>>
    /\ rr_out = <<>>
    /\ rr_scores = <<>>
    /\ rr_capped = <<>>

\* _rerank_chunks: the sort is the stage, the slice [:5] the cap after it
RagRerankStage ==
    /\ rr_pc = "ready"
    /\ rr_stage' = "rag"
    /\ rr_stage_in' = <<rr_in>>
    /\ LET reranked == RerankStage(rr_question, rr_in)
       IN  /\ rr_out' = reranked
           /\ rr_scores' = [i \in 1..Len(reranked) |->
                               RelevanceOf(rr_question, reranked[i])]
           /\ rr_capped' = Take(reranked, RerankTopN)
    /\ rr_pc' = "done"
    /\ UNCHANGED <<rr_question, rr_in>>

\* CrossEncoderReranker.rerank / LightweightLLMReranker.rerank as the only
\* stage of _rerank_node
AdvRerankStage ==
    /\ rr_pc = "ready"
    /\ \E reranker \in {"cross_encoder", "lightweight_llm"} :
        /\ rr_stage' = reranker
        /\ rr_stage_in' = <<rr_in>>
        /\ LET reranked == Rerank(reranker, rr_in)
           IN  /\ rr_out' = reranked.documents
               /\ rr_scores' = [i \in 1..Len(reranked.documents) |->
                                   <<reranked.scores[i], 1000>>]
               /\ rr_capped' = Take(reranked.documents, AdvContextSize)
    /\ rr_pc' = "done"
    /\ UNCHANGED <<rr_question, rr_in>>

\* _rerank_node with two or more stages: the loop, then the slice [:10]
AdvRerankChain ==
    /\ rr_pc = "ready"
    /\ \E types \in RerankerTypeChoices :
        LET rerankers == CreateRerankers(types)
            reranked_docs == ApplyRerankers(rerankers, rr_in)
        IN  /\ Len(rerankers) >= 2
            /\ rr_stage' = "chain"
            /\ rr_stage_in' = RerankerInputs(rerankers, rr_in)
            /\ rr_out' = reranked_docs
            /\ rr_scores' = [i \in 1..Len(reranked_docs) |-> <<1000, 1000>>]
            /\ rr_capped' = Take(reranked_docs, AdvContextSize)
    /\ rr_pc' = "done"
    /\ UNCHANGED <<rr_question, rr_in>>

(***************************************************************************)
(* The scoring specification: the "validate" node of the RAGService graph  *)
(* applied to every answer and context of the bounded input sets, and the  *)
(* advanced pipeline run on its own.                                       *)
(***************************************************************************)
ScoreAlphabet == {"a", "B", " "}

\* every text over the alphabet of at most n characters
Texts(n) == UNION {[1..k -> ScoreAlphabet] : k \in 0..n}

\* s repeated n times
Repeat(s, n) == [i \in 1..(n * Len(s)) |-> s[((i - 1) % Len(s)) + 1]]

\* the answers scored: the short texts, and long ones on either side of the
\* length at which the length score saturates
ScoreAnswers ==
    Texts(MaxAnswerLen) \cup {Repeat(<<"B", " ">>, 60), Repeat(<<"z">>, 250),
                              Repeat(<<"a", " ", "B">>, 100)}

\* the context chunks: a one-word chunk, a chunk in capitals, and a chunk of
\* eleven words whose last word is beyond the words _extract_citations reads
ScoreChunks ==
    {Doc(1, 1, <<"a">>),
     Doc(2, 1, <<"B", " ", "C">>),
     Doc(3, 2, Repeat(<<"x", " ">>, 10) \o <<"a">>)}

ScoreChunkLists == UNION {[1..k -> ScoreChunks] : k \in 0..MaxChunks}

\* run 1 stands at the "validate" node with some answer and some context
InitScoreRag ==
    /\ pc = [r \in Runs |-> IF r = 1 THEN "validate" ELSE "idle"]
    /\ req = [r \in Runs |->
                IF r = 1 THEN [question |-> QTax, user_id |-> 1, tenant_id |-> TenantOf(1),
                              max_citations |-> DefaultMaxCitations]
                ELSE [question |-> <<>>, user_id |-> NoId, tenant_id |-> NoId,
                             max_citations |-> 0]]
    /\ \E answer \in ScoreAnswers, chunks \in ScoreChunkLists :
        state = [r \in Runs |->
                    IF r = 1
                    THEN [InitialState(QTax) EXCEPT !.retrieved_chunks = chunks,
                                                    !.answer = answer]
                    ELSE InitialState(<<>>)]
    /\ answer_id = [r \in Runs |-> NoId]
    /\ http = [r \in Runs |-> 0]
    /\ answers = {}
    /\ citations = {}
    /\ next_answer_id = 1
    /\ next_citation_id = 1
    /\ gen_calls = [r \in Runs |-> IF r = 1 THEN 1 ELSE 0]
    /\ prior = [r \in Runs |-> {}]

InitScore ==
    /\ \/ InitScoreRag /\ AdvOff
       \/ InitAsk /\ AdvIdle
    /\ FusionOff
    /\ IngestOff
    /\ RerankOff
    /\ CancelOff
    /\ WsOff

NextScore ==
    \/ ValidateAnswer(1) /\ UNCHANGED <<advVars, fusionVars, ingestVars, rerankVars, cancelVars, wsVars>>
    \/ AdvQuery /\ UNCHANGED <<askVars, fusionVars, ingestVars, rerankVars, cancelVars, wsVars>>
    \/ AdvVectorStart /\ UNCHANGED <<askVars, fusionVars, ingestVars, rerankVars, cancelVars, wsVars>>
    \/ AdvVectorReturns /\ UNCHANGED <<askVars, fusionVars, ingestVars, rerankVars, cancelVars, wsVars>>
    \/ AdvKeywordStart /\ UNCHANGED <<askVars, fusionVars, ingestVars, rerankVars, cancelVars, wsVars>>
    \/ AdvRetrieveNode /\ UNCHANGED <<askVars, fusionVars, ingestVars, rerankVars, cancelVars, wsVars>>
    \/ AdvRetrieveFails /\ UNCHANGED <<askVars, fusionVars, ingestVars, rerankVars, cancelVars, wsVars>>
    \/ SearchChunks /\ UNCHANGED <<askVars, fusionVars, ingestVars, rerankVars, cancelVars, wsVars>>
    \/ SearchChunksFails /\ UNCHANGED <<askVars, fusionVars, ingestVars, rerankVars, cancelVars, wsVars>>
    \/ AdvRerankNode /\ UNCHANGED <<askVars, fusionVars, ingestVars, rerankVars, cancelVars, wsVars>>
    \/ AdvRerankFails /\ UNCHANGED <<askVars, fusionVars, ingestVars, rerankVars, cancelVars, wsVars>>
    \/ AdvGenerateNode /\ UNCHANGED <<askVars, fusionVars, ingestVars, rerankVars, cancelVars, wsVars>>
    \/ AdvValidateNode /\ UNCHANGED <<askVars, fusionVars, ingestVars, rerankVars, cancelVars, wsVars>>
    \/ AdvCiteNode /\ UNCHANGED <<askVars, fusionVars, ingestVars, rerankVars, cancelVars, wsVars>>

SpecScore == InitScore /\ [][NextScore]_vars

(***************************************************************************)
(* The fusion and the ingestion specifications.                            *)
(***************************************************************************)
InitFusionSpec ==
    InitAsk /\ AdvOff /\ InitFusion /\ IngestOff /\ RerankOff /\ CancelOff /\ WsOff

NextFusion ==
    \/ RagFuse /\ UNCHANGED <<askVars, advVars, ingestVars, rerankVars, cancelVars, wsVars>>
    \/ AdvFuse /\ UNCHANGED <<askVars, advVars, ingestVars, rerankVars, cancelVars, wsVars>>

SpecFusion == InitFusionSpec /\ [][NextFusion]_vars

InitIngestSpec ==
    InitAsk /\ AdvOff /\ FusionOff /\ InitIngest /\ RerankOff /\ CancelOff /\ WsOff

NextIngest ==
    \E j \in Jobs :
        \/ IngestStart(j) /\ UNCHANGED <<askVars, advVars, fusionVars, rerankVars, cancelVars, wsVars>>
        \/ IngestEmbed(j) /\ UNCHANGED <<askVars, advVars, fusionVars, rerankVars, cancelVars, wsVars>>
        \/ IngestEmbedFails(j) /\ UNCHANGED <<askVars, advVars, fusionVars, rerankVars, cancelVars, wsVars>>

SpecIngest == InitIngestSpec /\ [][NextIngest]_vars

(***************************************************************************)
(* The reranking specification.                                            *)
(***************************************************************************)
InitRerankSpec ==
    InitAsk /\ AdvOff /\ FusionOff /\ IngestOff /\ InitRerank /\ CancelOff /\ WsOff

NextRerank ==
    \/ RagRerankStage /\ UNCHANGED <<askVars, advVars, fusionVars, ingestVars, cancelVars, wsVars>>
    \/ AdvRerankStage /\ UNCHANGED <<askVars, advVars, fusionVars, ingestVars, cancelVars, wsVars>>
    \/ AdvRerankChain /\ UNCHANGED <<askVars, advVars, fusionVars, ingestVars, cancelVars, wsVars>>

SpecRerank == InitRerankSpec /\ [][NextRerank]_vars

(***************************************************************************)
(* The ask specification: concurrent /ask requests against one store.      *)
(***************************************************************************)
Init == InitAsk /\ AdvOff /\ FusionOff /\ IngestOff /\ RerankOff /\ CancelOff /\ WsOff

Next ==
    \E r \in Runs :
        \/ AskStart(r) /\ UNCHANGED <<advVars, fusionVars, ingestVars, rerankVars, cancelVars, wsVars>>
        \/ RetrieveChunks(r) /\ UNCHANGED <<advVars, fusionVars, ingestVars, rerankVars, cancelVars, wsVars>>
        \/ RetrieveFails(r) /\ UNCHANGED <<advVars, fusionVars, ingestVars, rerankVars, cancelVars, wsVars>>
        \/ RerankNode(r) /\ UNCHANGED <<advVars, fusionVars, ingestVars, rerankVars, cancelVars, wsVars>>
        \/ GenerateAnswer(r) /\ UNCHANGED <<advVars, fusionVars, ingestVars, rerankVars, cancelVars, wsVars>>
        \/ GenerateFails(r) /\ UNCHANGED <<advVars, fusionVars, ingestVars, rerankVars, cancelVars, wsVars>>
        \/ ValidateAnswer(r) /\ UNCHANGED <<advVars, fusionVars, ingestVars, rerankVars, cancelVars, wsVars>>
        \/ SaveAnswer(r) /\ UNCHANGED <<advVars, fusionVars, ingestVars, rerankVars, cancelVars, wsVars>>
        \/ SaveAnswerFails(r) /\ UNCHANGED <<advVars, fusionVars, ingestVars, rerankVars, cancelVars, wsVars>>
        \/ SaveCitations(r) /\ UNCHANGED <<advVars, fusionVars, ingestVars, rerankVars, cancelVars, wsVars>>
        \/ SaveCitationsFails(r) /\ UNCHANGED <<advVars, fusionVars, ingestVars, rerankVars, cancelVars, wsVars>>

Spec == Init /\ [][Next]_vars

(***************************************************************************)
(* The websocket specification: the manager, the endpoint's connect and    *)
(* disconnect calls, one broadcast and one personal message.               *)
(***************************************************************************)
InitWsSpec ==
    InitAsk /\ AdvOff /\ FusionOff /\ IngestOff /\ RerankOff /\ CancelOff /\ InitWs

NextWs ==
    \/ \E websocket \in Sockets, user_id \in WsUsers, tenant_id \in Tenants :
        Connect(websocket, user_id, tenant_id)
            /\ UNCHANGED <<askVars, advVars, fusionVars, ingestVars, rerankVars, cancelVars>>
    \/ \E websocket \in Sockets :
        Disconnect(websocket)
            /\ UNCHANGED <<askVars, advVars, fusionVars, ingestVars, rerankVars, cancelVars>>
    \/ \E user_id \in WsUsers, tenant_id \in Tenants :
        PersonalStart(user_id, tenant_id)
            /\ UNCHANGED <<askVars, advVars, fusionVars, ingestVars, rerankVars, cancelVars>>
    \/ PersonalSendReturns
            /\ UNCHANGED <<askVars, advVars, fusionVars, ingestVars, rerankVars, cancelVars>>
    \/ PersonalSendRaises
            /\ UNCHANGED <<askVars, advVars, fusionVars, ingestVars, rerankVars, cancelVars>>
    \/ \E tenant_id \in Tenants, exclude_user \in WsUsers \cup {NoUser} :
        BroadcastStart(tenant_id, exclude_user)
            /\ UNCHANGED <<askVars, advVars, fusionVars, ingestVars, rerankVars, cancelVars>>
    \/ BroadcastSendReturns
            /\ UNCHANGED <<askVars, advVars, fusionVars, ingestVars, rerankVars, cancelVars>>
    \/ BroadcastSendRaises
            /\ UNCHANGED <<askVars, advVars, fusionVars, ingestVars, rerankVars, cancelVars>>

SpecWs == InitWsSpec /\ [][NextWs]_vars

(***************************************************************************)
(* One ask run and its caller.  SpecRun lets the caller ask for the run to *)
(* be cancelled.  SpecRunLive adds what the code's scheduling guarantees:  *)
(* a node that calls nothing outside the process finishes, and the vector  *)
(* store and the database answer or raise.  The LLM call has no such       *)
(* guarantee: _generate_answer awaits it without a timeout.                *)
(***************************************************************************)
\* the run the caller follows
TheRun == 1

NextRun ==
    \/ AskStart(TheRun) /\ UNCHANGED <<advVars, fusionVars, ingestVars, rerankVars, cancelVars, wsVars>>
    \/ RetrieveChunks(TheRun) /\ UNCHANGED <<advVars, fusionVars, ingestVars, rerankVars, cancelVars, wsVars>>
    \/ RetrieveFails(TheRun) /\ UNCHANGED <<advVars, fusionVars, ingestVars, rerankVars, cancelVars, wsVars>>
    \/ RerankNode(TheRun) /\ UNCHANGED <<advVars, fusionVars, ingestVars, rerankVars, cancelVars, wsVars>>
    \/ GenerateAnswer(TheRun) /\ UNCHANGED <<advVars, fusionVars, ingestVars, rerankVars, cancelVars, wsVars>>
    \/ GenerateFails(TheRun) /\ UNCHANGED <<advVars, fusionVars, ingestVars, rerankVars, cancelVars, wsVars>>
    \/ ValidateAnswer(TheRun) /\ UNCHANGED <<advVars, fusionVars, ingestVars, rerankVars, cancelVars, wsVars>>
    \/ SaveAnswer(TheRun) /\ UNCHANGED <<advVars, fusionVars, ingestVars, rerankVars, cancelVars, wsVars>>
    \/ SaveAnswerFails(TheRun) /\ UNCHANGED <<advVars, fusionVars, ingestVars, rerankVars, cancelVars, wsVars>>
    \/ SaveCitations(TheRun) /\ UNCHANGED <<advVars, fusionVars, ingestVars, rerankVars, cancelVars, wsVars>>
    \/ SaveCitationsFails(TheRun) /\ UNCHANGED <<advVars, fusionVars, ingestVars, rerankVars, cancelVars, wsVars>>
    \/ RequestCancel(TheRun) /\ UNCHANGED <<advVars, fusionVars, ingestVars, rerankVars, wsVars>>

SpecRun == Init /\ [][NextRun]_vars

\* the variables no step of an ask run changes
BesideTheRun == <<advVars, fusionVars, ingestVars, rerankVars, cancelVars, wsVars>>

\* the steps of the run that do not wait for the LLM: at most one of them is
\* enabled at a time, since the run is at one place
StepWithoutLLM ==
    /\ \/ RetrieveChunks(TheRun) \/ RetrieveFails(TheRun)
       \/ RerankNode(TheRun)
       \/ ValidateAnswer(TheRun)
       \/ SaveAnswer(TheRun) \/ SaveAnswerFails(TheRun)
       \/ SaveCitations(TheRun) \/ SaveCitationsFails(TheRun)
    /\ UNCHANGED BesideTheRun

RunFairness == WF_vars(StepWithoutLLM)

SpecRunLive == Init /\ [][NextRun]_vars /\ RunFairness

(***************************************************************************)
(* Properties of the ask request.                                          *)
(***************************************************************************)
\* the stage of the orchestrator's state machine a run is in
StageOf(p) ==
    CASE p = "idle" -> "NONE"
      [] p = "retrieve" -> "RETRIEVING"
      [] p = "rerank" -> "RERANKING"
      [] p = "generate" -> "GENERATING"
      [] p = "validate" -> "SCORING"
      [] p \in {"save_answer", "save_citations"} -> "PERSISTING"
      [] p = "done" -> "DONE"
      [] p = "failed" -> "FAILED"

StageOrder ==
    <<"NONE", "RETRIEVING", "RERANKING", "GENERATING", "SCORING", "PERSISTING", "DONE">>

\* the chunk ids of the context the run's answer was generated from
ContextIds(r) ==
    {MetaGet(state[r].retrieved_chunks[i], "chunk_id") :
        i \in 1..Len(state[r].retrieved_chunks)}

\* the citations stored for an answer, without their primary keys
CitationSet(id) ==
    {[source_chunk_id |-> c.source_chunk_id, span_start |-> c.span_start,
      span_end |-> c.span_end] : c \in {x \in citations : x.answer_id = id}}

\* C1: asking the identical question a second time (same tenant, same question,
\* same retrieved context) returns the answer_id and the citations of the first
\* run without invoking the generator again, and one Answer row exists for both.
C1_SecondAskReturnsFirstAnswer ==
    \A r1 \in Runs, r2 \in Runs :
        ( /\ r1 \in prior[r2]
          /\ pc[r2] = "done"
          /\ req[r1].question = req[r2].question
          /\ req[r1].tenant_id = req[r2].tenant_id
          /\ ContextIds(r1) = ContextIds(r2) )
        => /\ answer_id[r2] = answer_id[r1]
           /\ CitationSet(answer_id[r2]) = CitationSet(answer_id[r1])
           /\ gen_calls[r2] = 0
           /\ Cardinality({a \in answers : a.run \in {r1, r2}}) = 1

\* a run that ended in an error: a node of the graph or a commit raised
RunFailed(r) == pc[r] = "failed"

\* C2: after a failed run no Answer row created by that run is in the store.
C2_NoAnswerOfFailedRun ==
    \A r \in Runs : RunFailed(r) => ~(\E a \in answers : a.run = r)

\* C3: in every committed state of the store, each Answer's citation_count is
\* the number of Citation rows stored for it.
C3_CitationCountMatchesRows ==
    \A a \in answers :
        a.citation_count = Cardinality({c \in citations : c.answer_id = a.id})

\* one step of a run in terms of stages: stay inside the stage without
\* re-entering it, move to the next stage, or fail from a non-terminal stage
StageStep(p, q) ==
    \/ p = q
    \/ p = "save_answer" /\ q = "save_citations"
    \/ \E i \in 1..(Len(StageOrder) - 1) :
          StageOf(p) = StageOrder[i] /\ StageOf(q) = StageOrder[i + 1]
    \/ /\ StageOf(p) \in {"RETRIEVING", "RERANKING", "GENERATING", "SCORING", "PERSISTING"}
       /\ StageOf(q) = "FAILED"

\* C4: within one run the stages are taken strictly in the order RETRIEVING,
\* RERANKING, GENERATING, SCORING, PERSISTING, DONE, none skipped or entered
\* twice; the only other step is from a non-terminal stage to FAILED, and DONE
\* and FAILED are never left.
C4_StagesStrictlySequential ==
    [][\A r \in Runs : StageStep(pc[r], pc'[r])]_vars

\* one run has gone through every stage to DONE, the other has failed
C4_Witness ==
    /\ pc[1] = "done"
    /\ pc[2] = "failed"

\* C7: when retrieval yields no chunk, the returned answer contains the
\* insufficient-information response, has no citations and the floor confidence.
C7_RefusesWithoutContext ==
    \A r \in Runs :
        (pc[r] = "done" /\ state[r].retrieved_chunks = <<>>)
        => /\ Contains(state[r].answer, InsufficientInfo)
           /\ Result(r).citations = <<>>
           /\ Result(r).confidence_score = ConfidenceFloor

(***************************************************************************)
(* Properties of citation extraction and confidence scoring.               *)
(***************************************************************************)
\* C5: every citation produced for a generated answer has
\* 0 <= span_start <= span_end <= len(answer_text), in the graph of RAGService
\* and in the advanced pipeline; for the empty answer no citation is produced.
C5_SpanWithinAnswer ==
    /\ \A r \in Runs :
        pc[r] = "save_answer" =>
            /\ \A i \in 1..Len(state[r].citations) :
                /\ 0 <= state[r].citations[i].span_start
                /\ state[r].citations[i].span_start <= state[r].citations[i].span_end
                /\ state[r].citations[i].span_end <= Len(state[r].answer)
            /\ state[r].answer = <<>> => state[r].citations = <<>>
    /\ adv_pc = "done" =>
        \A i \in 1..Len(adv.citations) :
            /\ 0 <= adv.citations[i].span.start
            /\ adv.citations[i].span.start <= adv.citations[i].span.end
            /\ adv.citations[i].span.end <= Len(adv.answer)

\* an answer shorter than the chunk it cites has been validated
C5_Witness ==
    /\ pc[1] = "save_answer"
    /\ state[1].citations # <<>>
    /\ \E i \in 1..Len(state[1].retrieved_chunks) :
        /\ Qualifies(state[1].answer, state[1].retrieved_chunks[i])
        /\ Len(state[1].answer) < Len(state[1].retrieved_chunks[i].page_content)

\* C6: the overall confidence and every citation's confidence lie in [0, 1]
\* (0..1000 thousandths), and with zero citations the overall confidence is the
\* floor whatever the answer text.
C6_ConfidenceInUnitInterval ==
    /\ \A r \in Runs :
        pc[r] = "save_answer" =>
            /\ state[r].confidence_score \in 0..1000
            /\ \A i \in 1..Len(state[r].citations) :
                state[r].citations[i].confidence \in 0..1000
            /\ state[r].citations = <<>> => state[r].confidence_score = ConfidenceFloor
    /\ adv_pc \in {"cite", "done"} => adv.confidence_score \in 0..1000

\* a long answer has been scored that no chunk of a non-empty context supports
C6_Witness ==
    /\ pc[1] = "save_answer"
    /\ state[1].retrieved_chunks # <<>>
    /\ state[1].citations = <<>>
    /\ Len(state[1].answer) > LengthCap
    /\ state[1].confidence_score = ConfidenceFloor

(***************************************************************************)
(* Properties of fusion.                                                   *)
(***************************************************************************)
\* the fused score _reciprocal_rank_fusion gave a document
ScoreOf(doc) ==
    LET i == CHOOSE n \in 1..Len(sorted_docs) : sorted_docs[n].doc_id = DocId(doc)
    IN  sorted_docs[i].score

\* C8: for the vector list [A, B, C] and the keyword list [B, C, A] with K = 60,
\* A and B both score 1/61 + 1/62, C scores 1/63 + 1/62, the lowest, and C is
\* the last element of the fused list.
C8_FusionExample ==
    ( /\ "rag" \in fu_done
      /\ result_lists = <<<<DocA, DocB, DocC>>, <<DocB, DocC, DocA>>>>
      /\ fu_k = FusionTopK )
    => /\ ScoreOf(DocA) = ContributionOneBased(0) + ContributionOneBased(1)
       /\ ScoreOf(DocB) = ScoreOf(DocA)
       /\ ScoreOf(DocC) = ContributionOneBased(2) + ContributionOneBased(1)
       /\ ScoreOf(DocC) < ScoreOf(DocA)
       /\ final_results # <<>>
       /\ final_results[Len(final_results)] = DocC

(***************************************************************************)
(* Properties of ingestion.                                                *)
(***************************************************************************)
\* the committed chunk row of a job with the given chunk_index
RowAt(j, index) ==
    (CHOOSE x \in document_chunks : x.row.job = j /\ x.row.chunk_index = index).row

NumRows(j) == Cardinality({x \in document_chunks : x.row.job = j})

\* s without its first n elements
Drop(s, n) == SubSeq(s, Min(n, Len(s)) + 1, Len(s))

\* the chunks joined after dropping the leading overlap of all but the first
Reconstruct(chunks, overlap) ==
    Flatten([i \in 1..Len(chunks) |->
                IF i = 1 THEN chunks[i] ELSE Drop(chunks[i], overlap)])

\* text[start:end] as Python slices it
Slice(text, start, end) == SubSeq(text, start + 1, Min(end, Len(text)))

\* C9: for a text that is not blank, the chunks ingestion stores are a
\* non-empty ordered sequence that reconstructs the text when the leading
\* overlap of every chunk but the first is removed, and each chunk's stored
\* start and end offsets delimit exactly its content in the text.
C9_ChunksReconstructText ==
    \A j \in Jobs :
        (ing_pc[j] = "done" /\ ~IsBlank(ing_content[j])) =>
            LET chunks == [n \in 1..NumRows(j) |-> RowAt(j, n - 1).content]
            IN  /\ NumRows(j) >= 1
                /\ Reconstruct(chunks, ChunkOverlap) = ing_content[j]
                /\ \A n \in 1..NumRows(j) :
                    Slice(ing_content[j], RowAt(j, n - 1).start_position,
                          RowAt(j, n - 1).end_position) = chunks[n]

\* C10: a text of 2,500 characters is stored as exactly 3 chunks, the n-th
\* starting at offset (n - 1) * (chunk_size - overlap): 0, 800 and 1600.
C10_StartOffsets ==
    \A j \in Jobs :
        (ing_pc[j] = "done" /\ Len(ing_content[j]) = 2500) =>
            /\ NumRows(j) = 3
            /\ \A n \in 1..NumRows(j) :
                RowAt(j, n - 1).start_position = (n - 1) * (ChunkSize - ChunkOverlap)
            /\ RowAt(j, 1).start_position = 800
            /\ RowAt(j, 2).start_position = 1600

(***************************************************************************)
(* Properties of retrieval.                                                *)
(***************************************************************************)
\* C11: when one backend's call raises, the request does not fail: the hybrid
\* retriever returns the other backend's results and marks them degraded, and
\* search_chunks does not answer with an error.
C11_DegradesInsteadOfFailing ==
    /\ (adv_calls.keyword = "raised" \/ adv_calls.vector = "raised")
        => /\ adv_pc # "failed"
           /\ "degraded" \in adv.metadata
    /\ search.vector = "raised" => search.status # 500

\* C12: the citations an ask run returns, and those persisted for its answer,
\* number at most the request's max_citations.
C12_AtMostMaxCitations ==
    \A r \in Runs :
        /\ pc[r] = "done" => Len(Result(r).citations) <= req[r].max_citations
        /\ answer_id[r] # NoId =>
              Cardinality({c \in citations : c.answer_id = answer_id[r]})
                  <= req[r].max_citations

\* a call of process_document that has begun and neither returned nor raised
Ingesting(j) == ing_pc[j] = "embed"

\* C13: ingesting a blank or whitespace-only text fails and persists no chunk;
\* it never returns successfully with zero chunks created.
C13_BlankTextFails ==
    \A j \in Jobs :
        (ing_pc[j] \in {"embed", "done", "failed"} /\ IsBlank(ing_content[j]))
        => /\ ing_pc[j] = "failed"
           /\ NumRows(j) = 0

\* C14: two calls of process_document for the same document never overlap:
\* one's chunk creation and persistence is over before the other's begins.
C14_ReingestionExclusive ==
    \A j1 \in Jobs, j2 \in Jobs :
        (j1 # j2 /\ ing_doc[j1] = ing_doc[j2])
        => ~(Ingesting(j1) /\ Ingesting(j2))

\* C15: an embedding call that fails does not fail the ingestion and drops no
\* chunk: when the call is over, as many chunks are persisted as the chunker
\* produced.
C15_NoChunkDropped ==
    \A j \in Jobs :
        ing_pc[j] \in {"done", "failed"}
        => /\ ing_pc[j] = "done"
           /\ NumRows(j) = Len(text_chunks[j])

(***************************************************************************)
(* Properties of the fusion formula, order and result.                     *)
(***************************************************************************)
\* the 1-indexed ranks a document id has in a list (one rank, or none)
RanksIn(list, id) == {p \in 1..Len(list) : DocId(list[p]) = id}

\* the fused score as the sum of 1 / (r + K) over the lists that hold the
\* document at 1-indexed rank r
SumOfReciprocalRanks(lists, id) ==
    SumSeq([l \in 1..Len(lists) |->
               IF RanksIn(lists[l], id) = {} THEN 0
               ELSE ContributionOneBased((CHOOSE p \in RanksIn(lists[l], id) : TRUE) - 1)])

\* the ids of the documents handed in
DistinctIds(lists) ==
    {DocId(lists[l][p]) : <<l, p>> \in
        {x \in (1..Len(lists)) \X (1..MaxListLen + 1) : x[2] <= Len(lists[x[1]])}}

\* C16: the fused score of every chunk is the sum, over the lists that hold
\* it, of 1 / (r + 60) with r its 1-indexed rank (1/61 for a list's first).
C16_ScoreIsSumOfReciprocalRanks ==
    "rag" \in fu_done =>
        \A n \in 1..Len(sorted_docs) :
            sorted_docs[n].score =
                SumOfReciprocalRanks(result_lists, sorted_docs[n].doc_id)

\* the best (least) 1-indexed rank a document id has in any list
BestRank(lists, id) ==
    LET ranks == UNION {RanksIn(lists[l], id) : l \in 1..Len(lists)}
    IN  CHOOSE p \in ranks : \A q \in ranks : p <= q

\* x stands before y in the order of the fused list: the higher score; on
\* equal scores the better single-source rank; then the smaller chunk id
Before(lists, x, y) ==
    \/ x.score > y.score
    \/ /\ x.score = y.score
       /\ BestRank(lists, x.doc_id) < BestRank(lists, y.doc_id)
    \/ /\ x.score = y.score
       /\ BestRank(lists, x.doc_id) = BestRank(lists, y.doc_id)
       /\ x.doc_id.chunk_id < y.doc_id.chunk_id

\* C17: the fused candidates are in non-increasing order of score, equal
\* scores in the order of the better single-source rank, then of the chunk
\* id, whichever list was handed in first.
C17_FusedOrderDeterministic ==
    ( /\ "rag" \in fu_done
      /\ \A id \in DistinctIds(result_lists) : id.chunk_id # NoId )
    => \A n \in 1..Len(sorted_docs), m \in 1..Len(sorted_docs) :
          n < m => Before(result_lists, sorted_docs[n], sorted_docs[m])

\* C18: the fusion result holds each distinct chunk at most once and has
\* min(k, number of distinct chunks) entries, the k highest-scoring ones.
C18_FusionResultDistinct ==
    "rag" \in fu_done =>
        /\ \A n \in 1..Len(final_results), m \in 1..Len(final_results) :
              DocId(final_results[n]) = DocId(final_results[m]) => n = m
        /\ Len(final_results) = Min(fu_k, Cardinality(DistinctIds(result_lists)))
        /\ {DocId(final_results[n]) : n \in 1..Len(final_results)}
              = {sorted_docs[n].doc_id : n \in 1..Min(fu_k, Len(sorted_docs))}

(***************************************************************************)
(* Properties of a reranker stage.                                         *)
(***************************************************************************)
\* the place of a candidate in the stage's input
PlaceIn(list, chunk) == CHOOSE i \in 1..Len(list) : list[i] = chunk

C20_StageIsStable ==
    rr_pc = "done" =>
        \A p \in 1..Len(rr_out), q \in 1..Len(rr_out) :
            (p < q /\ FracEq(rr_scores[p], rr_scores[q]))
            => PlaceIn(rr_in, rr_out[p]) < PlaceIn(rr_in, rr_out[q])

\* the sort has met two candidates of equal, non-zero score below a candidate
\* of higher score that entered the stage after them
C20_Witness ==
    /\ rr_pc = "done"
    /\ rr_stage = "rag"
    /\ \E p \in 1..Len(rr_out), q \in 1..Len(rr_out) :
        /\ 1 < p /\ p < q
        /\ rr_scores[p][1] > 0
        /\ FracEq(rr_scores[p], rr_scores[q])
        /\ PlaceIn(rr_in, rr_out[1]) > PlaceIn(rr_in, rr_out[q])

(***************************************************************************)
(* Properties of the cap after the reranker stages.                        *)
(***************************************************************************)
\* b holds the candidates of a, each once
SameCandidates(a, b) ==
    /\ Len(a) = Len(b)
    /\ \A i \in 1..Len(a) : \E j \in 1..Len(b) : b[j] = a[i]

\* the fixed context size of the pipeline the stage belongs to
ContextSizeOf(stage) == IF stage = "rag" THEN RerankTopN ELSE AdvContextSize

\* the stages got and gave every candidate, and the list handed on is the
\* first size candidates of the last stage's output
CappedOnceAfterLastStage(size) ==
    /\ \A n \in 1..Len(rr_stage_in) : SameCandidates(rr_in, rr_stage_in[n])
    /\ SameCandidates(rr_in, rr_out)
    /\ rr_capped = Take(rr_out, size)

\* C21 as stated: every stage receives the complete output of the stage
\* before it, and the candidates are cut once, after the last stage, to the
\* context size of ten.
C21_CappedToTenAfterLastStage ==
    rr_pc = "done" => CappedOnceAfterLastStage(AdvContextSize)

\* C21, amended: every stage receives the complete output of the stage
\* before it, and the candidates are cut once, after the last stage, to the
\* context size of the pipeline: ten in AdvancedRAGPipeline, five in
\* RAGService.
C21_CappedOnceAfterLastStage ==
    rr_pc = "done" => CappedOnceAfterLastStage(ContextSizeOf(rr_stage))

\* two chained stages have been given more candidates than the context
\* holds, and the list handed on is full
C21_Witness ==
    /\ rr_pc = "done"
    /\ rr_stage = "chain"
    /\ Len(rr_stage_in) >= 2
    /\ Len(rr_in) > AdvContextSize
    /\ Len(rr_capped) = AdvContextSize

(***************************************************************************)
(* Properties of the advanced pipeline without a reranker stage.           *)
(***************************************************************************)
\* C22: a pipeline created with no reranker stage runs to completion: once
\* both retrievers have returned, the rerank step does not raise and hands on
\* the retrieved candidates in unchanged order, capped to the context size.
C22_ZeroStagesPassThrough ==
    (/\ adv_rerankers = <<>>
     /\ adv_calls.vector = "returned"
     /\ adv_calls.keyword = "returned"
     /\ adv_pc \in {"generate", "validate", "cite", "done", "failed"})
    => /\ adv_pc # "failed"
       /\ adv.reranked_chunks = Take(adv.retrieved_chunks, AdvContextSize)

(***************************************************************************)
(* Properties of the extremes of the confidence.                           *)
(***************************************************************************)
\* C23: the overall confidence is 0 only if no citation qualifies, and it is
\* 1 only if every context chunk qualified as a citation: with a context
\* chunk that yields no citation the confidence is below 1.
C23_ConfidenceExtremes ==
    \A r \in Runs :
        pc[r] = "save_answer" =>
            /\ state[r].confidence_score = 0 => state[r].citations = <<>>
            /\ state[r].confidence_score = 1000 =>
                  \A i \in 1..Len(state[r].retrieved_chunks) :
                      Qualifies(state[r].answer, state[r].retrieved_chunks[i])

(***************************************************************************)
(* Properties of failures and cancellation of an ask run.                  *)
(***************************************************************************)
\* C24: a failing generation call is invoked once more with the same input
\* before the error propagates: a run that fails at the generate node has
\* invoked the generator twice.
C24_RetriedOnceBeforeFailing ==
    [][\A r \in Runs :
          (pc[r] = "generate" /\ pc'[r] = "failed") => gen_calls'[r] = 2]_vars

\* C25: once the caller has asked for a run to be cancelled while a node was
\* executing, that node may finish, but no later node of the run is executed
\* and no Answer is persisted for the run.
C25_NoStageAfterCancel ==
    \A r \in Runs :
        cancel_at[r] # "none" =>
            /\ pc[r] \in {cancel_at[r], AfterNode(cancel_at[r]), "failed"}
            /\ answer_id[r] = NoId

\* C26: every ask run that has started eventually ends done or failed, also
\* when the generation call never responds.
C26_RunEventuallyEnds ==
    \A r \in Runs : (pc[r] \in GraphNodes) ~> (pc[r] \in {"done", "failed"})

(***************************************************************************)
(* Properties of the two queries of hybrid retrieval.                      *)
(***************************************************************************)
\* C27: the vector query and the keyword query of a run are issued
\* concurrently: while the vector query is in flight the keyword query can
\* start, without waiting for the vector query to return; and the results are
\* fused only after both queries have returned.
C27_QueriesConcurrent ==
    /\ (adv_pc = "retrieve" /\ adv_calls.vector = "in_flight"
            /\ adv_calls.keyword = "none")
       => ENABLED AdvKeywordStart
    /\ "retrieval" \in adv.metadata
       => (adv_calls.vector = "returned" /\ adv_calls.keyword = "returned")

(***************************************************************************)
(* Properties of the websocket ConnectionManager.                          *)
(***************************************************************************)
\* C28: after any connect and disconnect calls the two registries agree:
\* every websocket of connection_users is the one stored for its tenant and
\* user in active_connections, and every websocket stored in
\* active_connections is in connection_users with that tenant and user.
C28_RegistriesAgree ==
    /\ \A w \in Sockets :
          connection_users[w].present =>
              LET dict == active_connections[connection_users[w].tenant_id]
              IN  /\ dict.present
                  /\ HasKey(dict.entries, connection_users[w].user_id)
                  /\ GetItem(dict.entries, connection_users[w].user_id) = w
    /\ \A t \in Tenants :
          \A i \in 1..Len(active_connections[t].entries) :
              LET e == active_connections[t].entries[i]
              IN  e.live =>
                      connection_users[e.websocket] =
                          [present |-> TRUE, user_id |-> e.user_id, tenant_id |-> t]

\* C29: a broadcast during whose sends a connect or disconnect for its tenant
\* is processed does not raise, and when it returns it has sent the message
\* to every user it did not exclude who stayed connected throughout.
C29_BroadcastSurvivesChanges ==
    /\ bc.pc # "raised"
    /\ bc.pc = "returned" => bc.stayed \subseteq bc.sent

\* C30: a broadcast for tenant T sends only to websockets that connect
\* registered under T, and never to the excluded user; a personal message for
\* user U of tenant T sends only to a websocket registered for U under T.
C30_TenantIsolated ==
    \A d \in delivered :
        /\ ws_registered[d.websocket].present
        /\ ws_registered[d.websocket].tenant_id = d.tenant_id
        /\ d.kind = "broadcast" => ws_registered[d.websocket].user_id # d.exclude_user
        /\ d.kind = "personal" => ws_registered[d.websocket].user_id = d.user_id

\* the same user id is connected in both tenants, and a broadcast that
\* excluded another user and a personal message have each been delivered to
\* that user in one tenant
C30_Witness ==
    /\ \E w1 \in Sockets, w2 \in Sockets :
        /\ connection_users[w1].present /\ connection_users[w2].present
        /\ connection_users[w1].user_id = connection_users[w2].user_id
        /\ connection_users[w1].tenant_id # connection_users[w2].tenant_id
        /\ \E d \in delivered : d.kind = "broadcast" /\ d.websocket = w1
        /\ \E d \in delivered : d.kind = "personal" /\ d.websocket \in {w1, w2}
    /\ bc.pc = "returned"
    /\ bc.exclude_user # NoUser

====
